---- MODULE Spec2Model ----
(***************************************************************************)
(* Model of driver/razercommon.c: the key-translation registry (an         *)
(* intrusive list of per-device sets, each holding an array of separately  *)
(* allocated pairs) and the USB control-transfer helpers.                  *)
(*                                                                         *)
(* Kernel memory is modelled as a heap of cells; kzalloc takes the lowest  *)
(* free cell, kfree releases it.  The driver never compares addresses, so  *)
(* states are kept up to a renaming of the cells: when a call has changed  *)
(* the heap, the live cells are renumbered in the order the list reaches   *)
(* them (Compact).  Spec lets an allocation fail only where the code       *)
(* checks the result (the transport helpers); SpecOOM also lets the        *)
(* unchecked allocations of the registry fail.                             *)
(*                                                                         *)
(* SpecUsb runs the transport helpers for two callers without a lock,      *)
(* SpecMutex with the callers' per-device mutex, SpecWire follows the      *)
(* bytes of one caller's report to the wire, and SpecCodec applies the     *)
(* report constructors and the checksum.                                   *)
(***************************************************************************)
EXTENDS Integers, Sequences, FiniteSets, TLC

VARIABLES heap, list, last, failures, pc, loc, bus, mutex, report, codec

vars == <<heap, list, last, failures, pc, loc, bus, mutex, report, codec>>
regVars == <<heap, list, last, failures>>
usbVars == <<pc, loc, bus, mutex>>
codecVars == <<report, codec>>

----------------------------------------------------------------------------
(* Bounds and input domains *)

\* most pairs a written buffer holds
MaxPairs == 2
\* most calls of razer_set_translations in which an allocation fails (SpecOOM)
MaxFailures == 1

\* device ids the callers use
Ids == {7, 9}
\* the (from, to) pairs written buffers are built from
Pairs == {<<2, 30>>, <<515, 48>>}
\* keycodes looked up
Keys == {2, 515, 99}

\* one set object, one array and MaxPairs pairs per device id
HeapSize == Cardinality(Ids) * (MaxPairs + 2)
Addr == 1..HeapSize

NULL == 0
\* kzalloc(0) returns ZERO_SIZE_PTR: not NULL, dereferencing faults, kfree ignores it
ZERO_SIZE_PTR == -1
\* a call that faulted (kernel oops) returns nothing
NoReturn == -1

Min(S) == CHOOSE x \in S : \A y \in S : x <= y

----------------------------------------------------------------------------
(* Byte buffers: u16 values are laid out in host (little-endian) order *)

Lo(v) == v % 256
Hi(v) == (v \div 256) % 256
U16(lo, hi) == lo + 256 * hi

PairBytes(p) == <<Lo(p[1]), Hi(p[1]), Lo(p[2]), Hi(p[2])>>

RECURSIVE Encode(_)
Encode(ps) == IF ps = <<>> THEN <<>> ELSE PairBytes(Head(ps)) \o Encode(Tail(ps))

PairSeqs == UNION {[1..n -> Pairs] : n \in 0..MaxPairs}

\* written buffers: every encoded pair list (lengths 0, 4, .., 4*MaxPairs),
\* a buffer of every length that is no multiple of 4 (up to 4*MaxPairs + 3),
\* and the one-byte buffer 0x00
Filler == Encode([i \in 1..(MaxPairs + 1) |-> <<515, 48>>])
Bufs == {Encode(ps) : ps \in PairSeqs}
          \cup {SubSeq(Filler, 1, c) : c \in {n \in 1..(4 * MaxPairs + 3) : n % 4 # 0}}
          \cup {<<0>>}

----------------------------------------------------------------------------
(* Kernel heap.  A machine state m threads the heap, the list and the      *)
(* per-call bookkeeping through the statements of one call.                *)

FreeCell == [kind |-> "free"]
ZeroEntry == [kind |-> "entry", from |-> 0, to |-> 0, flags |-> 0]

FreeAddrs(h) == {a \in Addr : h[a].kind = "free"}
LiveAddrs(h) == Addr \ FreeAddrs(h)

Machine(h, l) == [heap |-> h, list |-> l, allocs |-> 0, frees |-> 0,
                  badFree |-> FALSE, failed |-> FALSE, oops |-> FALSE]

Oops(m) == [m EXCEPT !.oops = TRUE]

\* kzalloc: NULL when the allocation fails, else a zeroed fresh cell
kzalloc(m, obj, fail) ==
    IF fail \/ FreeAddrs(m.heap) = {}
    THEN [m |-> [m EXCEPT !.failed = TRUE], ptr |-> NULL]
    ELSE LET a == Min(FreeAddrs(m.heap))
         IN [m |-> [m EXCEPT !.heap[a] = obj, !.allocs = @ + 1], ptr |-> a]

\* kfree: a no-op on NULL and ZERO_SIZE_PTR
kfree(m, p) ==
    IF p \notin Addr THEN m
    ELSE IF m.heap[p].kind = "free" THEN [m EXCEPT !.badFree = TRUE]
    ELSE [m EXCEPT !.heap[p] = FreeCell, !.frees = @ + 1]

\* mutant: the list head is re-initialised, dropping the nodes already linked
list_add_Reinit(m, it) == [m EXCEPT !.list = <<it>>]

\* list_add: insert right after the list head
list_add(m, it) == [m EXCEPT !.list = <<it>> \o @]

\* list_del: unlink the node
list_del(m, it) == [m EXCEPT !.list = SelectSeq(@, LAMBDA a : a # it)]

\* the cells one list node reaches: the set, its array, its pairs
CellsOf(h, it) ==
    IF it \notin Addr \/ h[it].kind # "set" THEN <<>>
    ELSE LET arr == h[it].translations
         IN <<it>> \o (IF arr \in Addr /\ h[arr].kind = "arr"
                       THEN <<arr>> \o SelectSeq(h[arr].slots,
                                                 LAMBDA p : p \in Addr /\ h[p].kind = "entry")
                       ELSE <<>>)

RECURSIVE Reach(_, _)
Reach(h, l) == IF l = <<>> THEN <<>> ELSE CellsOf(h, Head(l)) \o Reach(h, Tail(l))

RECURSIVE Sorted(_)
Sorted(S) == IF S = {} THEN <<>> ELSE <<Min(S)>> \o Sorted(S \ {Min(S)})

Range(s) == {s[i] : i \in 1..Len(s)}

\* the first occurrence of every cell of s, in order
Uniq(s) ==
    IF Cardinality(Range(s)) = Len(s) THEN s
    ELSE LET first == {i \in 1..Len(s) : \A j \in 1..(i - 1) : s[j] # s[i]}
             at == Sorted(first)
         IN [n \in 1..Len(at) |-> s[at[n]]]

\* live cells no list node reaches
Leaked(h, reach) == LiveAddrs(h) \ Range(reach)

\* renumber the live cells in the given order; a pointer to a freed cell
\* keeps pointing to a free cell
Renumber(m, order) ==
    IF \A i \in 1..Len(order) : order[i] = i THEN m
    ELSE LET k == Len(order)
             new == [p \in Addr |-> IF \E i \in 1..k : order[i] = p
                                    THEN CHOOSE i \in 1..k : order[i] = p
                                    ELSE HeapSize]
             ptr(p) == IF p \in Addr THEN new[p] ELSE p
             ren(c) == IF c.kind = "set" THEN [c EXCEPT !.translations = ptr(@)]
                       ELSE IF c.kind = "arr"
                       THEN [c EXCEPT !.slots = [i \in DOMAIN @ |-> ptr(@[i])]]
                       ELSE c
         IN [m EXCEPT !.heap = [a \in Addr |-> IF a <= k THEN ren(m.heap[order[a]])
                                               ELSE FreeCell],
                      !.list = [i \in DOMAIN m.list |-> ptr(m.list[i])]]

\* reached cells first, in list order, then the leaked ones
CompactFrom(m, reach) == Renumber(m, reach \o Sorted(Leaked(m.heap, reach)))

Compact(m) == CompactFrom(m, Uniq(Reach(m.heap, m.list)))

----------------------------------------------------------------------------
(* Translation registry *)

\* mutant: only the first node of the list is compared
razer_get_device_HeadOnly(h, l, id) ==
    IF l = <<>> THEN NULL
    ELSE IF h[Head(l)].id = id THEN Head(l)
    ELSE NULL

\* razer_get_device: list_for_each_entry from the head, the first node whose
\* id matches, or NULL
RECURSIVE razer_get_device(_, _, _)
razer_get_device(h, l, id) ==
    IF l = <<>> THEN NULL
    ELSE IF h[Head(l)].id = id THEN Head(l)
    ELSE razer_get_device(h, Tail(l), id)

\* razer_count_translations: how many sets of the list carry the id
razer_count_translations(h, l, id) ==
    Cardinality({i \in 1..Len(l) : h[l[i]].id = id})

\* the loop of razer_free_translations, i counted from 1
RECURSIVE FreeEntries(_, _, _, _)
FreeEntries(m, arr, i, length) ==
    IF m.oops \/ i > length THEN m
    ELSE IF arr \notin Addr \/ m.heap[arr].kind # "arr" THEN Oops(m)
    ELSE FreeEntries(kfree(m, m.heap[arr].slots[i]), arr, i + 1, length)

\* mutant: the array itself is never freed
razer_free_translations_LeaksArray(m, it) ==
    FreeEntries(m, m.heap[it].translations, 1, m.heap[it].length)

razer_free_translations(m, it) ==
    LET t == m.heap[it]
        m1 == FreeEntries(m, t.translations, 1, t.length)
    IN IF m1.oops THEN m1 ELSE kfree(m1, t.translations)

\* the loop of razer_alloc_translations, i counted from 1; F holds the
\* indices of the allocations of this call that fail (0 the set object,
\* 1 the array, 1+i the i-th pair)
RECURSIVE AllocEntries(_, _, _, _, _)
AllocEntries(m, arr, i, length, F) ==
    IF m.oops \/ i > length THEN m
    ELSE LET r == kzalloc(m, ZeroEntry, (i + 1) \in F)
         IN IF arr \notin Addr THEN Oops(r.m)
            ELSE AllocEntries([r.m EXCEPT !.heap[arr].slots[i] = r.ptr],
                              arr, i + 1, length, F)

razer_alloc_translations(m, it, length, F) ==
    LET m1 == [m EXCEPT !.heap[it].length = length]
        r == IF length = 0
             THEN [m |-> m1, ptr |-> ZERO_SIZE_PTR]
             ELSE kzalloc(m1, [kind |-> "arr", slots |-> [i \in 1..length |-> NULL]],
                          1 \in F)
        m2 == [r.m EXCEPT !.heap[it].translations = r.ptr]
    IN AllocEntries(m2, r.ptr, 1, length, F)

\* the "bindings set" loop of razer_set_translations, offset counted from 0
RECURSIVE SetBindings(_, _, _, _, _)
SetBindings(m, it, buf, offset, bindingsCount) ==
    IF m.oops \/ offset >= bindingsCount THEN m
    ELSE LET arr == m.heap[it].translations
             e == IF /\ arr \in Addr
                     /\ m.heap[arr].kind = "arr"
                     /\ offset + 1 \in DOMAIN m.heap[arr].slots
                  THEN m.heap[arr].slots[offset + 1] ELSE NULL
         IN IF e \notin Addr THEN Oops(m)
            ELSE SetBindings(
                   [m EXCEPT !.heap[e] =
                       [kind |-> "entry",
                        from |-> U16(buf[4 * offset + 1], buf[4 * offset + 2]),
                        to |-> U16(buf[4 * offset + 3], buf[4 * offset + 4]),
                        flags |-> 0]],
                   it, buf, offset + 1, bindingsCount)

\* mutant: the pairs are freed but the set stays linked
DeleteDevice_KeepsSet(m, it) == razer_free_translations(m, it)

\* the delete branch of razer_set_translations
DeleteDevice(m, it) ==
    LET m1 == razer_free_translations(m, it)
    IN IF m1.oops THEN m1 ELSE kfree(list_del(m1, it), it)

\* the "device dont have any" branch of razer_set_translations
AddDevice(m, id, bindingsCount, F) ==
    LET r == kzalloc(m, [kind |-> "set", id |-> 0, length |-> 0, translations |-> NULL],
                     0 \in F)
    IN IF r.ptr = NULL THEN Oops(r.m)
       ELSE LET m1 == razer_alloc_translations([r.m EXCEPT !.heap[r.ptr].id = id],
                                               r.ptr, bindingsCount, F)
            IN IF m1.oops THEN m1 ELSE list_add(m1, r.ptr)

\* mutant: the branch for a different count is left out
ResizeDevice_Skipped(m, it, bindingsCount, F) == m

\* the "count of existing bindings is different" branch
ResizeDevice(m, it, bindingsCount, F) ==
    LET m1 == razer_free_translations(m, it)
    IN IF m1.oops THEN m1 ELSE razer_alloc_translations(m1, it, bindingsCount, F)

\* mutant: every accepted write reallocates
NeedsResize_Always(length, bindingsCount) == TRUE

\* the test of the "count of existing bindings is different" branch
NeedsResize(length, bindingsCount) == length # bindingsCount

\* the length test that rejects a buffer: count % sizeof(u16)
BadLength(count) == count % 2 # 0

\* razer_set_translations: [m, ret], ret = NoReturn when the call faulted
razer_set_translations(m, id, buf, F) ==
    LET count == Len(buf)
        bindingsCount == count \div 4
        it0 == razer_get_device(m.heap, m.list, id)
    IN IF count = 1 /\ it0 # NULL
       THEN LET md == DeleteDevice(m, it0)
            IN [m |-> md, ret |-> IF md.oops THEN NoReturn ELSE 1]
       ELSE IF BadLength(count)
       THEN [m |-> m, ret |-> 2]
       ELSE LET m1 == IF it0 = NULL THEN AddDevice(m, id, bindingsCount, F) ELSE m
                it == razer_get_device(m1.heap, m1.list, id)
                m2 == IF m1.oops THEN m1
                      ELSE IF it = NULL THEN Oops(m1)
                      ELSE IF NeedsResize(m1.heap[it].length, bindingsCount)
                      THEN ResizeDevice(m1, it, bindingsCount, F)
                      ELSE m1
                m3 == SetBindings(m2, it, buf, 0, bindingsCount)
            IN [m |-> m3, ret |-> IF m3.oops THEN NoReturn ELSE 0]

\* the copy loop of razer_get_translations: the bytes written to buf
RECURSIVE DumpEntries(_, _, _, _)
DumpEntries(h, arr, offset, length) ==
    IF offset >= length THEN <<>>
    ELSE LET e == h[h[arr].slots[offset + 1]]
         IN <<Lo(e.from), Hi(e.from), Lo(e.to), Hi(e.to)>>
               \o DumpEntries(h, arr, offset + 1, length)

\* whether every pair a set declares can be dereferenced
Readable(h, it) ==
    \/ h[it].length = 0
    \/ /\ h[it].translations \in Addr
       /\ h[h[it].translations].kind = "arr"
       /\ \A i \in 1..h[it].length :
             /\ h[h[it].translations].slots[i] \in Addr
             /\ h[h[h[it].translations].slots[i]].kind = "entry"

\* razer_get_translations: [ret, out], out the bytes written to buf
razer_get_translations(h, l, id) ==
    LET device == razer_get_device(h, l, id)
    IN IF device = NULL THEN [ret |-> 1, out |-> <<0>>]
       ELSE IF ~Readable(h, device) THEN [ret |-> NoReturn, out |-> <<>>]
       ELSE LET out == DumpEntries(h, h[device].translations, 0, h[device].length)
            IN [ret |-> Len(out), out |-> out]

\* the loop of razer_get_translation, i counted from 1: the address of the
\* first pair whose from is key, or NULL
RECURSIVE ScanEntries(_, _, _, _, _)
ScanEntries(h, arr, i, length, key) ==
    IF i > length THEN NULL
    ELSE IF h[h[arr].slots[i]].from = key THEN h[arr].slots[i]
    ELSE ScanEntries(h, arr, i + 1, length, key)

\* mutant: the scan starts at the second pair
razer_get_translation_SkipsFirst(h, l, id, key) ==
    LET device == razer_get_device(h, l, id)
    IN IF device = NULL THEN NULL
       ELSE IF ~Readable(h, device) THEN NoReturn
       ELSE ScanEntries(h, h[device].translations, 2, h[device].length, key)

\* razer_get_translation
razer_get_translation(h, l, id, key) ==
    LET device == razer_get_device(h, l, id)
    IN IF device = NULL THEN NULL
       ELSE IF ~Readable(h, device) THEN NoReturn
       ELSE ScanEntries(h, h[device].translations, 1, h[device].length, key)

\* the loop of razer_cleanup_translations over the sets left in the list
RECURSIVE CleanupLoop(_)
CleanupLoop(m) ==
    IF m.oops \/ m.list = <<>> THEN m
    ELSE LET ptr == Head(m.list)
             m1 == razer_free_translations(m, ptr)
         IN IF m1.oops THEN m1 ELSE CleanupLoop(kfree(list_del(m1, ptr), ptr))

\* mutant: only the first set of the list is released
razer_cleanup_translations_FirstOnly(m) ==
    IF m.list = <<>> THEN m
    ELSE kfree(list_del(razer_free_translations(m, Head(m.list)), Head(m.list)),
               Head(m.list))

\* razer_cleanup_translations: nothing to do on an empty list, else the loop
razer_cleanup_translations(m) == IF m.list = <<>> THEN m ELSE CleanupLoop(m)

\* mutant: reading the bindings also removes them
GetCall_Consumes(m, id) ==
    [m |-> IF razer_get_device(m.heap, m.list, id) = NULL THEN m
           ELSE DeleteDevice(m, razer_get_device(m.heap, m.list, id)),
     r |-> razer_get_translations(m.heap, m.list, id)]

\* razer_get_translations as a call: it writes to the caller's buf only, the
\* registry and the heap are handed back as they were
GetCall(m, id) == [m |-> m, r |-> razer_get_translations(m.heap, m.list, id)]

\* razer_get_translation as a call: a scan, no write
LookupCall(m, id, key) ==
    [m |-> m, ret |-> razer_get_translation(m.heap, m.list, id, key)]

----------------------------------------------------------------------------
(* Registry actions *)

NoCall == [op |-> "init", id |-> 0, key |-> 0, buf |-> <<>>, ret |-> 0,
           out |-> <<>>, allocs |-> 0, frees |-> 0, badFree |-> FALSE,
           failed |-> FALSE]

Call(op, id, key, buf, ret, out, m) ==
    [op |-> op, id |-> id, key |-> key, buf |-> buf, ret |-> ret, out |-> out,
     allocs |-> m.allocs, frees |-> m.frees, badFree |-> m.badFree,
     failed |-> m.failed]

\* F: the allocations of the call that fail
SetWith(id, buf, F) ==
    \E r \in {razer_set_translations(Machine(heap, list), id, buf, F)} :
      \E c \in {Compact(r.m)} :
       /\ heap' = c.heap
       /\ list' = c.list
       /\ last' = Call("set", id, 0, buf, r.ret, <<>>, r.m)

Set ==
    /\ \E id \in Ids, buf \in Bufs : SetWith(id, buf, {})
    /\ UNCHANGED <<failures, usbVars, codecVars>>

SetOOM ==
    /\ failures < MaxFailures
    /\ \E id \in Ids, buf \in Bufs, F \in (SUBSET (0..(MaxPairs + 1))) \ {{}} :
          SetWith(id, buf, F)
    /\ failures' = failures + 1
    /\ UNCHANGED <<usbVars, codecVars>>

Get ==
    /\ \E id \in Ids :
          \E g \in {GetCall(Machine(heap, list), id)} :
             /\ heap' = g.m.heap
             /\ list' = g.m.list
             /\ last' = Call("get", id, 0, <<>>, g.r.ret, g.r.out, g.m)
    /\ UNCHANGED <<failures, usbVars, codecVars>>

Lookup ==
    /\ \E id \in Ids, key \in Keys :
          \E g \in {LookupCall(Machine(heap, list), id, key)} :
             /\ heap' = g.m.heap
             /\ list' = g.m.list
             /\ last' = Call("lookup", id, key, <<>>, g.ret, <<>>, g.m)
    /\ UNCHANGED <<failures, usbVars, codecVars>>

Cleanup ==
    /\ \E m \in {Compact(razer_cleanup_translations(Machine(heap, list)))} :
          /\ heap' = m.heap
          /\ list' = m.list
          /\ last' = Call("cleanup", 0, 0, <<>>, IF m.oops THEN NoReturn ELSE 0, <<>>, m)
    /\ UNCHANGED <<failures, usbVars, codecVars>>

----------------------------------------------------------------------------
(* The report codec.  A report is the 90 bytes of struct razer_report, byte *)
(* at offset o being report[o + 1].                                         *)

\* sizeof(struct razer_report), the length razer_get_usb_response expects
RAZER_USB_REPORT_LEN == 90

\* most bytes a caller stores into a report after constructing it
MaxStores == 1

\* byte offsets of the fields of struct razer_report; remaining_packets is
\* the two-byte field that makes the checksummed fields fill offsets 2..87
Layout == [status |-> 0, transaction_id |-> 1, remaining_packets |-> 2,
           protocol_type |-> 4, data_size |-> 5, command_class |-> 6,
           command_id |-> 7, arguments |-> 8, crc |-> 88, reserved |-> 89]

Offsets == 0..(RAZER_USB_REPORT_LEN - 1)

\* command_class, command_id and data_size values the callers pass
CmdVals == {10, 255}
\* the offsets callers store to and the bytes they store
StoreOffsets == {Layout.status, Layout.remaining_packets, Layout.arguments,
                 Layout.crc - 1, Layout.crc, Layout.reserved}
StoreVals == {1, 255}

\* a ^ b on unsigned char
RECURSIVE xor(_, _)
xor(a, b) ==
    IF a = 0 THEN b
    ELSE IF b = 0 THEN a
    ELSE ((a + b) % 2) + 2 * xor(a \div 2, b \div 2)

\* a store of one byte into the report
Store(r, o, v) == [r EXCEPT ![o + 1] = v]

\* for(...; i < 88; i++) crc ^= _report[i]; the new crc is computed before
\* the next iteration starts
RECURSIVE CrcLoop(_, _, _)
CrcLoop(r, i, crc) ==
    IF i >= 88 THEN crc
    ELSE LET next == xor(crc, r[i + 1])
         IN IF next >= 0 THEN CrcLoop(r, i + 1, next) ELSE next

\* mutant: the loop starts at the first byte of the report
razer_calculate_crc_FromStart(r) == CrcLoop(r, 0, 0)

\* razer_calculate_crc: crc = 0, then the loop from i = 2
razer_calculate_crc(r) == CrcLoop(r, 2, 0)

\* memset(&new_report, 0, sizeof(struct razer_report))
get_empty_razer_report == [i \in 1..RAZER_USB_REPORT_LEN |-> 0]

\* mutant: the class and the id are stored into each other's field
get_razer_report_Swapped(command_class, command_id, data_size) ==
    Store(Store(Store(Store(get_empty_razer_report,
        Layout.transaction_id, 255),
        Layout.command_class, command_id),
        Layout.command_id, command_class),
        Layout.data_size, data_size)

\* get_razer_report: the zeroed struct, then the field stores in source order
get_razer_report(command_class, command_id, data_size) ==
    Store(Store(Store(Store(Store(Store(Store(Store(get_empty_razer_report,
        Layout.status, 0),
        Layout.transaction_id, 255),
        Layout.remaining_packets, 0),
        Layout.remaining_packets + 1, 0),
        Layout.protocol_type, 0),
        Layout.command_class, command_class),
        Layout.command_id, command_id),
        Layout.data_size, data_size)

\* the latest codec call: its arguments, its result, and how many bytes the
\* caller has stored into the report since it was constructed
NoCodecCall == [op |-> "none", class |-> 0, id |-> 0, size |-> 0, crc |-> 0, stores |-> 0]

NewReport ==
    \E cc \in CmdVals, cid \in CmdVals, ds \in CmdVals :
       /\ report' = get_razer_report(cc, cid, ds)
       /\ codec' = [NoCodecCall EXCEPT !.op = "new", !.class = cc, !.id = cid, !.size = ds]
       /\ UNCHANGED <<regVars, usbVars>>

EmptyReport ==
    /\ report' = get_empty_razer_report
    /\ codec' = [NoCodecCall EXCEPT !.op = "empty"]
    /\ UNCHANGED <<regVars, usbVars>>

\* the caller fills in a byte of the report
StoreByte ==
    /\ codec.stores < MaxStores
    /\ \E o \in StoreOffsets, v \in StoreVals :
          /\ report[o + 1] # v
          /\ report' = Store(report, o, v)
          /\ codec' = [codec EXCEPT !.op = "store", !.stores = @ + 1]
    /\ UNCHANGED <<regVars, usbVars>>

Checksum ==
    /\ codec' = [codec EXCEPT !.op = "crc", !.crc = razer_calculate_crc(report)]
    /\ UNCHANGED <<report, regVars, usbVars>>

----------------------------------------------------------------------------
(* USB control transfers.  Each caller context runs one call at a time; a  *)
(* call is a sequence of steps (pc) over its locals (loc); bus records the *)
(* transfer events in the order they happen on the device.                 *)

Callers == {"A", "B"}

ENOMEM == 12
EIO == 5
\* report_size values passed to razer_send_control_msg_old_device
OldSizes == {8}
\* what usb_control_msg returns for a transfer of the given size: a negative
\* errno (-ETIMEDOUT, -EPIPE), a short count, or the size
XferLens(size) == {-110, -32, size - 1, size}

\* the reports callers hand to the transport: a command with one argument
\* byte, with its crc field left 0, set to the checksum, or set to 0xFF
Command == Store(get_razer_report(3, 10, 1), Layout.arguments, 5)
Frames == {Command,
           Store(Command, Layout.crc, razer_calculate_crc(Command)),
           Store(Command, Layout.crc, 255)}

\* data is the caller's report, copy the kmemdup'ed transfer buffer, wire the
\* bytes the set transfer carried
Idle == [op |-> "none", size |-> 0, sbuf |-> FALSE, rbuf |-> FALSE,
         called |-> FALSE, sent |-> FALSE, slen |-> 0, retval |-> 0,
         got |-> FALSE, glen |-> 0, done |-> FALSE, result |-> 0,
         data |-> <<>>, copy |-> <<>>, wire |-> <<>>]

\* mutant: the copy gets its crc field from the checksum of the data
kmemdup_SetsCrc(data, size) ==
    IF size = RAZER_USB_REPORT_LEN
    THEN Store(data, Layout.crc, razer_calculate_crc(data))
    ELSE SubSeq(data, 1, size)

\* kmemdup(data, size, GFP_KERNEL) when it succeeds: the first size bytes
kmemdup(data, size) == SubSeq(data, 1, size)

\* mutant: the lock does not keep anyone out
MayRun_Always(c) == TRUE

\* the callers' discipline: a caller runs a transport call only while it
\* holds the device's mutex, or no caller uses the mutex at all
MayRun(c) == mutex \in {c, "unused"}

Event(c, ev) == [c |-> c, ev |-> ev]

\* usb_control_msg on the send pipe: submission and completion
SetSubmitted(b, c) == Append(b, Event(c, "set_issued"))
SetCompleted(b, c) == Append(b, Event(c, "set_done"))
\* mutant: no settle wait
usleep_range_Skipped(b, c) == b

\* usleep_range(wait_min, wait_max) has elapsed
usleep_range(b, c) == Append(b, Event(c, "wait_done"))
\* usb_control_msg on the receive pipe
GetSubmitted(b, c) == Append(b, Event(c, "get_issued"))
GetCompleted(b, c) == Append(b, Event(c, "get_done"))

\* mutant: a short transfer counts as success
SendResult_ShortIsOk(len, size) == IF len < 0 THEN len ELSE 0

\* the return expression of razer_send_control_msg(_old_device)
SendResult(len, size) == IF len < 0 THEN len ELSE IF len # size THEN -EIO ELSE 0

\* mutant: only a failed transfer counts as an invalid response
ResponseResult_ShortIsOk(len) == IF len < 0 THEN 1 ELSE 0

\* the result of razer_get_usb_response from the length of the get transfer
ResponseResult(len) == IF len # 90 THEN 1 ELSE 0

\* a caller enters one of the three functions with a report out of frames;
\* the events of its previous call are dropped from the record
BeginWith(c, frames) ==
    /\ pc[c] = "idle"
    /\ \E data \in frames :
          \/ /\ loc' = [loc EXCEPT ![c] = [Idle EXCEPT !.op = "send", !.called = TRUE,
                                                      !.size = RAZER_USB_REPORT_LEN,
                                                      !.data = data]]
             /\ pc' = [pc EXCEPT ![c] = "send_kmemdup"]
          \/ /\ \E size \in OldSizes :
                   loc' = [loc EXCEPT ![c] = [Idle EXCEPT !.op = "send_old", !.called = TRUE,
                                                            !.size = size, !.data = data]]
             /\ pc' = [pc EXCEPT ![c] = "send_kmemdup"]
          \/ /\ loc' = [loc EXCEPT ![c] = [Idle EXCEPT !.op = "get_response",
                                                      !.size = RAZER_USB_REPORT_LEN,
                                                      !.data = data]]
             /\ pc' = [pc EXCEPT ![c] = "resp_kzalloc"]
    /\ bus' = SelectSeq(bus, LAMBDA e : e.c # c)
    /\ UNCHANGED <<mutex, regVars, codecVars>>

Begin(c) == BeginWith(c, {Command})

\* razer_get_usb_response: buf = kzalloc(...), -ENOMEM when it fails
RespKzalloc(c) ==
    /\ pc[c] = "resp_kzalloc"
    /\ \/ /\ loc' = [loc EXCEPT ![c].rbuf = TRUE, ![c].called = TRUE]
          /\ pc' = [pc EXCEPT ![c] = "send_kmemdup"]
       \/ /\ loc' = [loc EXCEPT ![c].done = TRUE, ![c].result = -ENOMEM]
          /\ pc' = [pc EXCEPT ![c] = "idle"]
    /\ UNCHANGED <<bus, mutex, regVars, codecVars>>

\* razer_send_control_msg(_old_device) returns ret: to razer_get_usb_response,
\* which goes on to the get transfer, or to the caller; called records that
\* the function was entered
SendReturns(c, ret) ==
    IF loc[c].op = "get_response"
    THEN /\ loc' = [loc EXCEPT ![c].retval = ret, ![c].sbuf = FALSE, ![c].copy = <<>>]
         /\ pc' = [pc EXCEPT ![c] = "get_submit"]
    ELSE /\ loc' = [loc EXCEPT ![c].done = TRUE, ![c].result = ret, ![c].sbuf = FALSE,
                               ![c].copy = <<>>]
         /\ pc' = [pc EXCEPT ![c] = "idle"]

\* razer_send_control_msg: buf = kmemdup(...), -ENOMEM when it fails
SendKmemdup(c) ==
    /\ pc[c] = "send_kmemdup"
    /\ \/ /\ loc' = [loc EXCEPT ![c].sbuf = TRUE,
                                ![c].copy = kmemdup(loc[c].data, loc[c].size)]
          /\ pc' = [pc EXCEPT ![c] = "send_submit"]
       \/ SendReturns(c, -ENOMEM)
    /\ UNCHANGED <<bus, mutex, regVars, codecVars>>

\* usb_control_msg(usb_sndctrlpipe, HID_REQ_SET_REPORT, ...) is submitted
SendSubmit(c) ==
    /\ pc[c] = "send_submit"
    /\ bus' = SetSubmitted(bus, c)
    /\ loc' = [loc EXCEPT ![c].wire = loc[c].copy]
    /\ pc' = [pc EXCEPT ![c] = "send_xfer"]
    /\ UNCHANGED <<mutex, regVars, codecVars>>

\* ... and completes with len
SendXfer(c) ==
    /\ pc[c] = "send_xfer"
    /\ \E len \in XferLens(loc[c].size) :
          loc' = [loc EXCEPT ![c].sent = TRUE, ![c].slen = len]
    /\ bus' = SetCompleted(bus, c)
    /\ pc' = [pc EXCEPT ![c] = "send_sleep"]
    /\ UNCHANGED <<mutex, regVars, codecVars>>

\* usleep_range(wait_min, wait_max)
SendSleep(c) ==
    /\ pc[c] = "send_sleep"
    /\ bus' = usleep_range(bus, c)
    /\ pc' = [pc EXCEPT ![c] = "send_kfree"]
    /\ UNCHANGED <<loc, mutex, regVars, codecVars>>

\* kfree(buf) and the return
SendKfree(c) ==
    /\ pc[c] = "send_kfree"
    /\ SendReturns(c, SendResult(loc[c].slen, loc[c].size))
    /\ UNCHANGED <<bus, mutex, regVars, codecVars>>

\* razer_get_usb_response: usb_control_msg(usb_rcvctrlpipe, HID_REQ_GET_REPORT, ...)
GetSubmit(c) ==
    /\ pc[c] = "get_submit"
    /\ bus' = GetSubmitted(bus, c)
    /\ pc' = [pc EXCEPT ![c] = "get_xfer"]
    /\ UNCHANGED <<loc, mutex, regVars, codecVars>>

GetXfer(c) ==
    /\ pc[c] = "get_xfer"
    /\ \E len \in XferLens(RAZER_USB_REPORT_LEN) :
          loc' = [loc EXCEPT ![c].got = TRUE, ![c].glen = len]
    /\ bus' = GetCompleted(bus, c)
    /\ pc' = [pc EXCEPT ![c] = "resp_finish"]
    /\ UNCHANGED <<mutex, regVars, codecVars>>

\* memcpy(response_report, buf, ...), kfree(buf), the length test, the return
RespFinish(c) ==
    /\ pc[c] = "resp_finish"
    /\ loc' = [loc EXCEPT ![c].rbuf = FALSE, ![c].done = TRUE,
                          ![c].result = ResponseResult(loc[c].glen)]
    /\ pc' = [pc EXCEPT ![c] = "idle"]
    /\ UNCHANGED <<bus, mutex, regVars, codecVars>>

----------------------------------------------------------------------------
(* The callers' mutex.  It is taken and released around a transport call by *)
(* the code that calls razercommon.c, not by razercommon.c itself.          *)

mutex_lock(c) ==
    /\ mutex = "free"
    /\ pc[c] = "idle"
    /\ mutex' = c
    /\ UNCHANGED <<pc, loc, bus, regVars, codecVars>>

mutex_unlock(c) ==
    /\ mutex = c
    /\ pc[c] = "idle"
    /\ mutex' = "free"
    /\ UNCHANGED <<pc, loc, bus, regVars, codecVars>>

----------------------------------------------------------------------------
(* Specifications *)

Init ==
    /\ heap = [a \in Addr |-> FreeCell]
    /\ list = <<>>
    /\ last = NoCall
    /\ failures = 0
    /\ pc = [c \in Callers |-> "idle"]
    /\ loc = [c \in Callers |-> Idle]
    /\ bus = <<>>
    /\ mutex = "free"
    /\ report = get_empty_razer_report
    /\ codec = NoCodecCall

Next == Set \/ Get \/ Lookup \/ Cleanup

Spec == Init /\ [][Next]_vars

NextOOM == Set \/ SetOOM \/ Get \/ Lookup \/ Cleanup

SpecOOM == Init /\ [][NextOOM]_vars

\* the transport helpers take no lock: the callers' steps interleave freely
NextUsb ==
    \E c \in Callers :
       \/ Begin(c)
       \/ RespKzalloc(c)
       \/ SendKmemdup(c)
       \/ SendSubmit(c)
       \/ SendXfer(c)
       \/ SendSleep(c)
       \/ SendKfree(c)
       \/ GetSubmit(c)
       \/ GetXfer(c)
       \/ RespFinish(c)

SpecUsb == Init /\ [][NextUsb]_vars

\* one caller handing reports with a valid, an unset and a wrong crc to the
\* transport
NextWire ==
    \E c \in {"A"} :
       \/ BeginWith(c, Frames)
       \/ RespKzalloc(c)
       \/ SendKmemdup(c)
       \/ SendSubmit(c)
       \/ SendXfer(c)
       \/ SendSleep(c)
       \/ SendKfree(c)
       \/ GetSubmit(c)
       \/ GetXfer(c)
       \/ RespFinish(c)

SpecWire == Init /\ [][NextWire]_vars

\* the device's mutex: either every caller takes it around each call, or
\* none does
InitMutex ==
    /\ heap = [a \in Addr |-> FreeCell]
    /\ list = <<>>
    /\ last = NoCall
    /\ failures = 0
    /\ pc = [c \in Callers |-> "idle"]
    /\ loc = [c \in Callers |-> Idle]
    /\ bus = <<>>
    /\ mutex \in {"free", "unused"}
    /\ report = get_empty_razer_report
    /\ codec = NoCodecCall

NextMutex ==
    \E c \in Callers :
       \/ mutex_lock(c)
       \/ mutex_unlock(c)
       \/ /\ MayRun(c)
          /\ \/ Begin(c)
             \/ RespKzalloc(c)
             \/ SendKmemdup(c)
             \/ SendSubmit(c)
             \/ SendXfer(c)
             \/ SendSleep(c)
             \/ SendKfree(c)
             \/ GetSubmit(c)
             \/ GetXfer(c)
             \/ RespFinish(c)

SpecMutex == InitMutex /\ [][NextMutex]_vars

\* the codec functions applied by a caller that builds a report
NextCodec == NewReport \/ EmptyReport \/ StoreByte \/ Checksum

SpecCodec == Init /\ [][NextCodec]_vars

----------------------------------------------------------------------------
(* Views of the registry used by the properties *)

\* the list nodes that carry the id
NodesOf(id) == {i \in 1..Len(list) : heap[list[i]].id = id}

Bound(id) == NodesOf(id) # {}

\* the (from, to) pairs of one list node, in array order
PairsOf(h, it) ==
    IF ~Readable(h, it) THEN <<>>
    ELSE [i \in 1..h[it].length |->
            <<h[h[h[it].translations].slots[i]].from,
              h[h[h[it].translations].slots[i]].to>>]

\* per id: whether it is bound, its declared count and its pairs
Bindings(h, l) ==
    [id \in Ids |->
       LET it == razer_get_device(h, l, id)
       IN IF it = NULL THEN [bound |-> FALSE, length |-> 0, pairs |-> <<>>]
          ELSE [bound |-> TRUE, length |-> h[it].length, pairs |-> PairsOf(h, it)]]

\* the declared count of every set equals the pairs allocated for it
CountsAgree(h, l) ==
    \A i \in 1..Len(l) :
       /\ Readable(h, l[i])
       /\ h[l[i]].length > 0 => Len(h[h[l[i]].translations].slots) = h[l[i]].length

\* the transfer events of caller c still on record, in order
EventsOf(c) ==
    LET mine == SelectSeq(bus, LAMBDA e : e.c = c)
    IN [i \in 1..Len(mine) |-> mine[i].ev]

IsPrefix(s, t) == Len(s) <= Len(t) /\ \A i \in 1..Len(s) : s[i] = t[i]

----------------------------------------------------------------------------
(* Properties *)

\* C1: after set(id, buffer of n >= 1 pairs, 4n bytes), from any reachable
\* registry state, get(id) returns exactly 4n bytes, the bytes written.
C1_SetThenGet ==
    (last.op = "set" /\ Len(last.buf) >= 4 /\ Len(last.buf) % 4 = 0)
       => /\ last.ret = 0
          /\ razer_get_translations(heap, list, last.id)
                = [ret |-> Len(last.buf), out |-> last.buf]

\* a two-pair write that replaced a set of another size, read back whole
C1_Witness ==
    /\ last.op = "set"
    /\ Len(last.buf) = 8
    /\ last.frees > 0
    /\ last.buf[1] # last.buf[5]
    /\ razer_get_translations(heap, list, last.id).out = last.buf

\* C2: set(id, buffer) with a length that is neither 1 nor a multiple of 4
\* reports InvalidLength (2) and leaves every binding as it was.
C2_InvalidLengthRejected ==
    [][(last'.op = "set" /\ Len(last'.buf) # 1 /\ Len(last'.buf) % 4 # 0)
          => (last'.ret = 2 /\ Bindings(heap', list') = Bindings(heap, list))]_vars

\* C3: after set(id, one byte), whatever the id's state was, get(id)
\* returns 1 and writes the byte 0: the id is absent.
C3_DeleteThenGet ==
    (last.op = "set" /\ Len(last.buf) = 1)
       => /\ razer_get_translations(heap, list, last.id) = [ret |-> 1, out |-> <<0>>]
          /\ ~Bound(last.id)

\* a one-byte write that removed a set with pairs
C3_Witness ==
    /\ last.op = "set"
    /\ Len(last.buf) = 1
    /\ last.ret = 1
    /\ last.frees >= 3
    /\ razer_get_translations(heap, list, last.id).ret = 1

\* C4: set(id, one byte) returns Deleted (1) whether or not a set exists.
C4_DeleteReturnsDeleted ==
    (last.op = "set" /\ Len(last.buf) = 1) => last.ret = 1

\* C5: every set present in the registry has at least one pair.
C5_NoEmptySet ==
    \A i \in 1..Len(list) : heap[list[i]].length >= 1

\* C6: when an allocation fails during set, the call returns an error, no
\* set's declared count differs from the pairs allocated for it, and the
\* bindings of the id are what they were.
C6_AllocFailureSurfaced ==
    [][(last'.op = "set" /\ last'.failed)
          => /\ last'.ret \notin {0, 1, NoReturn}
             /\ CountsAgree(heap', list')
             /\ Bindings(heap', list')[last'.id] = Bindings(heap, list)[last'.id]]_vars

\* C7: once razer_get_usb_response has called send, it issues the get
\* transfer whatever send returned, and its result is 0 exactly when the
\* get transfer returned 90 bytes, 1 otherwise.
C7_GetAfterSend ==
    \A c \in Callers :
       (loc[c].op = "get_response" /\ loc[c].called)
          => /\ pc[c] \in {"get_xfer", "resp_finish", "idle"}
                   => \E i \in 1..Len(bus) : bus[i] = Event(c, "get_issued")
             /\ loc[c].done
                   => /\ loc[c].got
                      /\ loc[c].result \in {0, 1}
                      /\ loc[c].result = 0 <=> loc[c].glen = 90

\* a call whose send failed and whose get transfer returned 90 bytes
C7_Witness ==
    \E c \in Callers :
       /\ loc[c].op = "get_response"
       /\ loc[c].done
       /\ loc[c].retval < 0
       /\ loc[c].glen = 90
       /\ loc[c].result = 0

\* C8 as stated: whenever a call has issued its get transfer, its set
\* transfer was issued, completed and waited for before, in that order.
C8_SetAlwaysBeforeGet ==
    \A c \in Callers :
       (\E i \in 1..Len(EventsOf(c)) : EventsOf(c)[i] = "get_issued")
          => IsPrefix(<<"set_issued", "set_done", "wait_done", "get_issued">>,
                      EventsOf(c))

\* C8 amended: the events of one call are, in order, set issued, set
\* completed, wait elapsed, get issued, get completed; only when send's
\* kmemdup failed (send returned -ENOMEM without a transfer) is the get
\* transfer issued with no set transfer before it.
C8_OrderWithinCall ==
    \A c \in Callers :
       \/ IsPrefix(EventsOf(c),
                   <<"set_issued", "set_done", "wait_done", "get_issued", "get_done">>)
       \/ /\ IsPrefix(EventsOf(c), <<"get_issued", "get_done">>)
          /\ EventsOf(c) # <<>>
          /\ loc[c].retval = -ENOMEM
          /\ ~loc[c].sent

\* a call that has issued its get transfer after a set transfer and its wait
C8_Witness ==
    \E c \in Callers :
       /\ loc[c].op = "get_response"
       /\ EventsOf(c) = <<"set_issued", "set_done", "wait_done", "get_issued">>
       /\ \E d \in Callers \ {c} : EventsOf(d) # <<>>

\* C9: send and send_legacy return 0 exactly when the transfer moved the
\* whole frame, a negative value when it failed or fell short, and the
\* transfer buffer is released when they return.
C9_SendResult ==
    \A c \in Callers :
       /\ (loc[c].op \in {"send", "send_old"} /\ loc[c].done)
             => /\ loc[c].result = 0 <=> (loc[c].sent /\ loc[c].slen = loc[c].size)
                /\ (loc[c].sent /\ loc[c].slen # loc[c].size) => loc[c].result < 0
                /\ ~loc[c].sbuf
       /\ (loc[c].op = "get_response" /\ pc[c] \in {"get_submit", "get_xfer", "resp_finish"})
             => /\ loc[c].retval = 0 <=> (loc[c].sent /\ loc[c].slen = loc[c].size)
                /\ (loc[c].sent /\ loc[c].slen # loc[c].size) => loc[c].retval < 0
                /\ ~loc[c].sbuf

\* a legacy send whose transfer fell one byte short
C9_Witness ==
    \E c \in Callers :
       /\ loc[c].op = "send_old"
       /\ loc[c].done
       /\ loc[c].slen = loc[c].size - 1
       /\ loc[c].result = -EIO
       /\ ~loc[c].sbuf

\* C10: lookup(id, key) returns the pair at the smallest position whose
\* from is key, and none when the id has no set or no pair matches.
C10_LookupFirstMatch ==
    last.op = "lookup"
       => IF ~Bound(last.id) THEN last.ret = NULL
          ELSE LET it == list[Min(NodesOf(last.id))]
                   slots == heap[heap[it].translations].slots
                   hits == {i \in 1..heap[it].length : heap[slots[i]].from = last.key}
               IN IF hits = {} THEN last.ret = NULL
                  ELSE /\ last.ret = slots[Min(hits)]
                       /\ \A i \in hits : i # Min(hits) => last.ret # slots[i]

\* a lookup that hit the first of two pairs with the same from
C10_Witness ==
    /\ last.op = "lookup"
    /\ last.ret # NULL
    /\ \E i \in NodesOf(last.id) :
          /\ heap[list[i]].length = 2
          /\ \A j \in 1..2 :
                heap[heap[heap[list[i]].translations].slots[j]].from = last.key

----------------------------------------------------------------------------
(* Properties of the registry's memory and of what a call leaves alone *)

\* the from values a written buffer binds
FromsOf(buf) == {U16(buf[4 * o + 1], buf[4 * o + 2]) : o \in 0..((Len(buf) \div 4) - 1)}

\* the cells one set owns besides itself: its array and its pairs
OwnedCells(h, it) == IF h[it].length = 0 THEN 0 ELSE h[it].length + 1

\* what lookup hands back, dereferenced: the pair, or <<>> for none
LookupValue(h, l, id, key) ==
    LET e == razer_get_translation(h, l, id, key)
    IN IF e \in Addr THEN <<h[e].from, h[e].to, h[e].flags>> ELSE <<>>

\* the step is an accepted write to an id that was bound before it
IsRebind ==
    /\ last'.op = "set"
    /\ last'.ret = 0
    /\ razer_get_device(heap, list, last'.id) # NULL

OldCount == heap[razer_get_device(heap, list, last'.id)].length

NewCount == Len(last'.buf) \div 4

\* C11: a rebind with a different count frees every old pair and the old
\* array exactly once (as many frees as old cells, none of a free cell, no
\* live cell left unreachable), and afterwards lookup finds exactly the
\* from values of the new buffer.
C11_RebindFreesOld ==
    [][(IsRebind /\ OldCount # NewCount)
          => /\ last'.frees = OwnedCells(heap, razer_get_device(heap, list, last'.id))
             /\ ~last'.badFree
             /\ Leaked(heap', Reach(heap', list')) = {}
             /\ \A key \in Keys :
                   razer_get_translation(heap', list', last'.id, key) # NULL
                      <=> key \in FromsOf(last'.buf)]_vars

\* a two-pair set rebound to one pair: three cells freed, two allocated, and
\* a key of the old pairs no longer found
C11_Witness ==
    /\ last.op = "set"
    /\ last.ret = 0
    /\ last.frees = 3
    /\ last.allocs = 2
    /\ \E key \in Keys : /\ key \notin FromsOf(last.buf)
                         /\ razer_get_translation(heap, list, last.id, key) = NULL

\* C12: after teardown the list is empty and no allocation is live; no
\* free hit a cell that was already free.
C12_TeardownFreesAll ==
    last.op = "cleanup"
       => /\ list = <<>>
          /\ LiveAddrs(heap) = {}
          /\ ~last.badFree
          /\ last.ret = 0

\* a teardown that released two full sets
C12_Witness ==
    /\ last.op = "cleanup"
    /\ last.frees = HeapSize
    /\ LiveAddrs(heap) = {}

\* C13: no id is carried by two sets of the list.
C13_IdsUnique ==
    \A id \in Ids : razer_count_translations(heap, list, id) <= 1

\* both ids bound, the latest write a rebind of the one that is not at the head
C13_Witness ==
    /\ Len(list) = 2
    /\ last.op = "set"
    /\ last.ret = 0
    /\ heap[list[2]].id = last.id
    /\ razer_count_translations(heap, list, last.id) = 1

\* C17: a rebind with the same count allocates and frees nothing, keeps the
\* set, its array and its pairs where they are and overwrites each pair from
\* the buffer in order with flags 0; a rebind allocates or frees only when
\* the counts differ.
C17_SameCountReuses ==
    [][IsRebind
          => LET it == razer_get_device(heap, list, last'.id)
                 arr == heap[it].translations
             IN /\ OldCount = NewCount
                   => /\ last'.allocs = 0
                      /\ last'.frees = 0
                      /\ list' = list
                      /\ heap'[it] = heap[it]
                      /\ NewCount > 0 => heap'[arr] = heap[arr]
                      /\ \A o \in 0..(NewCount - 1) :
                            heap'[heap[arr].slots[o + 1]]
                               = [kind |-> "entry",
                                  from |-> last'.buf[4 * o + 1] + 256 * last'.buf[4 * o + 2],
                                  to |-> last'.buf[4 * o + 3] + 256 * last'.buf[4 * o + 4],
                                  flags |-> 0]
                /\ (last'.allocs > 0 \/ last'.frees > 0) => OldCount # NewCount]_vars

\* a two-pair write over a two-pair set: nothing allocated, nothing freed
C17_Witness ==
    /\ last.op = "set"
    /\ last.ret = 0
    /\ Len(last.buf) = 8
    /\ last.allocs = 0
    /\ last.frees = 0

\* C19: a set call on one id (replace, delete or rejected write) leaves
\* every other id as it was: bound or not, its get result and its lookup
\* results.
C19_OtherIdsUntouched ==
    [][last'.op = "set"
          => \A b \in Ids \ {last'.id} :
                /\ Bindings(heap', list')[b] = Bindings(heap, list)[b]
                /\ razer_get_translations(heap', list', b)
                      = razer_get_translations(heap, list, b)
                /\ \A key \in Keys :
                      LookupValue(heap', list', b, key) = LookupValue(heap, list, b, key)]_vars

\* a delete of one id while the other holds two pairs
C19_Witness ==
    /\ last.op = "set"
    /\ last.ret = 1
    /\ \E b \in Ids \ {last.id} : Bindings(heap, list)[b].length = 2

\* C20: get and lookup leave the list and every cell as they were and
\* neither allocate nor free.
C20_ReadsChangeNothing ==
    [][last'.op \in {"get", "lookup"}
          => /\ heap' = heap
             /\ list' = list
             /\ last'.allocs = 0
             /\ last'.frees = 0]_vars

\* a get that returned two pairs and a lookup that found one
C20_Witness ==
    \/ /\ last.op = "get"
       /\ last.ret = 8
    \/ /\ last.op = "lookup"
       /\ last.ret \in Addr

----------------------------------------------------------------------------
(* Properties of the codec *)

\* bit b of a byte
Bit(v, b) == (v \div (2 ^ b)) % 2

\* the XOR of the bytes at the given offsets, bit by bit: a bit of the
\* result is set iff an odd number of the bytes have it set
XorOf(r, offs) ==
    LET weight(b) == 2 ^ b
        odd(b) == Cardinality({o \in offs : Bit(r[o + 1], b) = 1}) % 2
    IN odd(0) * weight(0) + odd(1) * weight(1) + odd(2) * weight(2) + odd(3) * weight(3)
          + odd(4) * weight(4) + odd(5) * weight(5) + odd(6) * weight(6) + odd(7) * weight(7)

\* other values for one byte: lowest bit flipped, every bit flipped
Changed(v) == {IF v % 2 = 0 THEN v + 1 ELSE v - 1, 255 - v}

C15_NewReportFields ==
    codec.op = "new"
       => /\ report[Layout.status + 1] = 0
          /\ report[Layout.transaction_id + 1] = 255
          /\ report[Layout.remaining_packets + 1] = 0
          /\ report[Layout.remaining_packets + 2] = 0
          /\ report[Layout.protocol_type + 1] = 0
          /\ report[Layout.command_class + 1] = codec.class
          /\ report[Layout.command_id + 1] = codec.id
          /\ report[Layout.data_size + 1] = codec.size
          /\ \A o \in Offsets \ {Layout.transaction_id, Layout.command_class,
                                 Layout.command_id, Layout.data_size} :
                report[o + 1] = 0

\* a report constructed with three different arguments
C15_Witness ==
    /\ codec.op = "new"
    /\ codec.class = 10
    /\ codec.id = 255
    /\ codec.size = 10
    /\ report[Layout.command_class + 1] = 10

----------------------------------------------------------------------------
(* Properties of the frames on the wire and of concurrent calls *)

\* the crc field of a 90-byte frame holds the checksum of the frame
CrcValid(f) == f[Layout.crc + 1] = razer_calculate_crc(f)

\* C16 as stated: every 90-byte frame a set transfer carried has a crc
\* field equal to the checksum of its bytes 2..87.
C16_WireCrcValid ==
    \A c \in Callers :
       Len(loc[c].wire) = RAZER_USB_REPORT_LEN => CrcValid(loc[c].wire)

\* C16, amended: the set transfer carries the first size bytes of the
\* caller's report unchanged, so the crc on the wire is the checksum of the
\* frame exactly when the caller's report carried it.
C16_WireIsCallersBytes ==
    \A c \in Callers :
       loc[c].wire # <<>>
          => /\ loc[c].wire = SubSeq(loc[c].data, 1, loc[c].size)
             /\ loc[c].size = RAZER_USB_REPORT_LEN
                   => (CrcValid(loc[c].wire) <=> CrcValid(loc[c].data))

\* a completed 90-byte set transfer of a report whose crc field was not set
C16_Witness ==
    \E c \in Callers :
       /\ loc[c].sent
       /\ Len(loc[c].wire) = RAZER_USB_REPORT_LEN
       /\ loc[c].wire[Layout.crc + 1] = 0
       /\ ~CrcValid(loc[c].wire)

\* positions of a caller's events of one kind on the bus
At(c, ev) == {i \in DOMAIN bus : bus[i] = Event(c, ev)}

\* C18: when the callers hold the mutex across each call, no event of
\* another caller lies between a call's set transfer and its get transfer.
C18_MutexKeepsPairTogether ==
    mutex # "unused"
       => \A c \in Callers :
             \A i \in At(c, "set_issued"), j \in At(c, "get_done") :
                \A k \in i..j : bus[k].c = c

\* without the mutex: set(A), set(B), get(A), get(B), each transfer complete
\* before the next is issued
C18_Witness ==
    /\ mutex = "unused"
    /\ \E sa \in At("A", "set_done"), sb \in At("B", "set_issued"),
          tb \in At("B", "set_done"), ga \in At("A", "get_issued"),
          ha \in At("A", "get_done"), gb \in At("B", "get_issued") :
          /\ sa < sb
          /\ tb < ga
          /\ ha < gb

====
